---- MODULE Spec2Model ----
(***************************************************************************)
(* Model of ptsc (parallel-typescript): the ProjectsTree dependency graph  *)
(* of src/index.ts and the scheduler loop buildInParallel / buildProject   *)
(* that drives it against a Piscina worker pool.                           *)
(*                                                                         *)
(* Vocabulary: the specification's unit = project, register =             *)
(* addProjectWithDeps, validate = validateState, claimReadyUnits =         *)
(* takeProjectsReadyToBuild, markCompleted = setProjectBuilt,              *)
(* allCompleted = areAllProjectsBuilt, simulateSchedule = getBuildFlow;    *)
(* WaitingOnDependencies/Ready/Running/Completed =                         *)
(* WaitForDeps/ReadyToBuild/Building/Built.                                *)
(***************************************************************************)
EXTENDS Integers, Sequences, FiniteSets, TLC

VARIABLES
    maxWorkers,     \* args.maxWorkers: the pool's maxThreads
    tree,           \* the ProjectsTree main builds and schedules
    copy,           \* getBuildFlow's local `copy`
    result,         \* getBuildFlow's local `result`
    buildFlow,      \* history: what getBuildFlow returned, call by call, since the
                    \* tree was last written (the latest two calls at most)
    flowReturn,     \* where control goes when getBuildFlow returns
    pc,             \* position of the synchronous caller (main, or the API client)
    process,        \* "running", or "exited" after process.exit
    exitCode,       \* the code given to process.exit
    stderr,         \* the console.error lines, as records
    summaries,      \* how many "N projects are compiled successfully" lines were logged
    queue,          \* Piscina: tasks submitted and waiting for a thread, oldest first
    running,        \* Piscina: tasks a worker thread is executing
    rejected,       \* history: the projects whose workerPool.run promise rejected
    timesClaimed,   \* history: how often takeProjectsReadyToBuild returned each key
    bipTrace,       \* history: what the latest buildInParallel call saw
    pending         \* drain loop: keys claimed and not yet marked built

vars == <<maxWorkers, tree, copy, result, buildFlow, flowReturn, pc,
          process, exitCode, stderr, summaries, queue, running, rejected,
          timesClaimed, bipTrace, pending>>

(***************************************************************************)
(* Bounds of the model.                                                    *)
(***************************************************************************)
\* The project paths.  Projects are registered in this order; a dependency list
\* may name any of them, so a project can be registered before or after the
\* projects it depends on, and a key that is never registered can be named.
KeyNames == <<"A", "B", "C", "D">>
Keys == {KeyNames[i] : i \in 1..Len(KeyNames)}
\* Total number of dependency entries in a graph (duplicates counted).
MaxEdges == 4
\* Largest pool size tried.
MaxWorkers == 2
\* How many waves that take no project getBuildFlow's loop is followed through.
MaxSpin == 1

(***************************************************************************)
(* ProjectState (src/index.ts:17-22) and JavaScript's undefined.           *)
(***************************************************************************)
WaitForDeps == "WaitForDeps"
ReadyToBuild == "ReadyToBuild"
Building == "Building"
Built == "Built"
Undefined == "undefined"

(***************************************************************************)
(* A JavaScript Map: its entries in insertion order.  set() on a present   *)
(* key keeps the entry's position.                                         *)
(***************************************************************************)
MapHas(m, k) == \E i \in 1..Len(m) : m[i].key = k
MapGet(m, k) ==
    IF MapHas(m, k) THEN m[CHOOSE i \in 1..Len(m) : m[i].key = k].value ELSE Undefined
MapSet(m, k, v) ==
    IF MapHas(m, k)
    THEN [i \in 1..Len(m) |-> IF m[i].key = k THEN [key |-> k, value |-> v] ELSE m[i]]
    ELSE Append(m, [key |-> k, value |-> v])
MapKeySet(m) == {m[i].key : i \in 1..Len(m)}
Range(s) == {s[i] : i \in 1..Len(s)}

\* The element of a one-element set.  The operators below are written
\* The({e(x) : x \in {v}}) where they use an argument v several times, so that v
\* is evaluated once.
The(S) == CHOOSE x \in S : TRUE

(***************************************************************************)
(* class ProjectsTree                                                      *)
(***************************************************************************)
\* constructor: empty maps, promise not resolved.
NewProjectsTree ==
    [projectsState |-> <<>>, dependenciesForProject |-> <<>>, isResolved |-> FALSE]

\* Variant of AllDepsAreBuilt: `some` where the code has `every`.
SomeDepIsBuilt(ps, deps) ==
    deps = <<>> \/ \E i \in 1..Len(deps) : MapGet(ps, deps[i]) = Built

\* Variant of AllDepsAreBuilt: a dependency without a state counts as built.
AllDepsAreBuiltOrUnknown(ps, deps) ==
    \A i \in 1..Len(deps) : MapGet(ps, deps[i]) \in {Built, Undefined}

\* deps.every(depPath => projectsState.get(depPath) === Built)
AllDepsAreBuilt(ps, deps) == \A i \in 1..Len(deps) : MapGet(ps, deps[i]) = Built

\* Variant of IsSettled: only Built projects are left alone.
IsSettledBuiltOnly(currentState) == currentState = Built

\* updateProjectsState leaves a project in this state alone (lines 139-144).
IsSettled(currentState) == currentState = Built \/ currentState = Building

\* The body of updateProjectsState's forEach for one entry (lines 138-153).
UpdateOne(ps, projectPath, deps) ==
    IF IsSettled(MapGet(ps, projectPath))
    THEN ps
    ELSE MapSet(ps, projectPath,
                IF AllDepsAreBuilt(ps, deps) THEN ReadyToBuild ELSE WaitForDeps)

\* updateProjectsState's forEach from the i-th entry of dependenciesForProject on.
RECURSIVE UpdateFrom(_, _, _)
UpdateFrom(ps, dm, i) ==
    IF i > Len(dm) THEN ps
    ELSE The({UpdateFrom(UpdateOne(p, dm[i].key, dm[i].value), dm, i + 1) : p \in {ps}})

UpdateProjectsState(t) ==
    The({[u EXCEPT !.projectsState =
                       UpdateFrom(u.projectsState, u.dependenciesForProject, 1)] :
         u \in {t}})

AddProjectWithDeps(t, projectPath, projDeps) ==
    UpdateProjectsState(
        [t EXCEPT !.dependenciesForProject = MapSet(@, projectPath, projDeps)])

ProjectsCount(t) == Len(t.projectsState)

AreAllProjectsBuilt(t) ==
    \A i \in 1..Len(t.projectsState) : t.projectsState[i].value = Built

\* Variant of ValidateLookups: the inner deps.forEach is missing.
RECURSIVE ValidateProjectKeys(_, _)
ValidateProjectKeys(dm, i) ==
    IF i > Len(dm) THEN <<>>
    ELSE <<dm[i].key>> \o ValidateProjectKeys(dm, i + 1)

\* The keys validateState's assertions look up, in the order it looks them up:
\* for each entry of dependenciesForProject the project, then its dependencies.
RECURSIVE ValidateLookups(_, _)
ValidateLookups(dm, i) ==
    IF i > Len(dm) THEN <<>>
    ELSE <<dm[i].key>> \o dm[i].value \o ValidateLookups(dm, i + 1)

\* validateState: <<>> when every assertion holds, else the one-element list of
\* the first key that has no state (assert exits the process at the first).
ValidateState(t) ==
    LET lookups == ValidateLookups(t.dependenciesForProject, 1)
        bad == {i \in 1..Len(lookups) : MapGet(t.projectsState, lookups[i]) = Undefined}
    IN IF bad = {} THEN <<>>
       ELSE <<lookups[CHOOSE i \in bad : \A j \in bad : i <= j]>>

\* Variant of ReadyKeys: the collection stops at the first ready project.
RECURSIVE FirstReadyKey(_, _)
FirstReadyKey(ps, i) ==
    IF i > Len(ps) THEN <<>>
    ELSE IF ps[i].value = ReadyToBuild THEN <<ps[i].key>>
    ELSE FirstReadyKey(ps, i + 1)

\* The keys whose state is ReadyToBuild, in projectsState's order.
RECURSIVE ReadyKeys(_, _)
ReadyKeys(ps, i) ==
    IF i > Len(ps) THEN <<>>
    ELSE (IF ps[i].value = ReadyToBuild THEN <<ps[i].key>> ELSE <<>>)
         \o ReadyKeys(ps, i + 1)

\* Variant of MarkBuilding: the taken projects are left ReadyToBuild.
MarkNothing(ps, keys) == ps

\* Variant of MarkBuilding: the taken projects are set to Built at once.
MarkBuiltAtOnce(ps, keys) ==
    [i \in 1..Len(ps) |->
        IF ps[i].key \in Range(keys) THEN [key |-> ps[i].key, value |-> Built]
        ELSE ps[i]]

\* projectsState with every key of `keys` set to Building.
MarkBuilding(ps, keys) ==
    [i \in 1..Len(ps) |->
        IF ps[i].key \in Range(keys) THEN [key |-> ps[i].key, value |-> Building]
        ELSE ps[i]]

\* Lines 91-102 of takeProjectsReadyToBuild, on the tree updateProjectsState left.
TakeReady(u, res) ==
    [tree |-> [u EXCEPT !.projectsState = MarkBuilding(@, res)], result |-> res]

\* takeProjectsReadyToBuild: the tree afterwards and the returned list.
TakeProjectsReadyToBuild(t) ==
    The({The({TakeReady(u, res) : res \in {ReadyKeys(u.projectsState, 1)}}) :
         u \in {UpdateProjectsState(t)}})

\* Variant of IsBuilding: a ReadyToBuild project passes the assertion too.
IsBuildingOrReady(t, projectPath) ==
    MapGet(t.projectsState, projectPath) \in {Building, ReadyToBuild}

\* setProjectBuilt's assertion.
IsBuilding(t, projectPath) == MapGet(t.projectsState, projectPath) = Building

\* Lines 113-118 of setProjectBuilt.
ResolveIfAllBuilt(u) ==
    IF ~u.isResolved /\ AreAllProjectsBuilt(u)
    THEN [u EXCEPT !.isResolved = TRUE]
    ELSE u

\* Variant of SetProjectBuilt: line 111, this.updateProjectsState(), is missing.
SetProjectBuiltNoUpdate(t, projectPath) ==
    ResolveIfAllBuilt([t EXCEPT !.projectsState = MapSet(@, projectPath, Built)])

\* setProjectBuilt after its assertion held.
SetProjectBuilt(t, projectPath) ==
    The({ResolveIfAllBuilt(u) :
         u \in {UpdateProjectsState(
                    [t EXCEPT !.projectsState = MapSet(@, projectPath, Built)])}})

\* projectsToBuild.forEach(copy.setProjectBuilt, copy)
RECURSIVE SetAllBuilt(_, _)
SetAllBuilt(t, keys) ==
    IF keys = <<>> THEN t
    ELSE The({SetAllBuilt(SetProjectBuilt(u, Head(keys)), Tail(keys)) : u \in {t}})

(***************************************************************************)
(* getBuildFlow (src/index.ts:47-60), one wave of its while loop per step. *)
(***************************************************************************)
\* Variant of CopyOfTree: line 49 is missing, the copy's projectsState is empty.
CopyOfTreeNoState(t) ==
    [NewProjectsTree EXCEPT !.dependenciesForProject = t.dependenciesForProject]

\* Lines 48-50: a new tree holding copies of both maps.
CopyOfTree(t) ==
    [NewProjectsTree EXCEPT !.projectsState = t.projectsState,
                            !.dependenciesForProject = t.dependenciesForProject]

\* How many entries of getBuildFlow's result are 0.
EmptyWaves(res) == Cardinality({i \in 1..Len(res) : res[i] = 0})

\* Line 55, result.push(n).  A wave that takes no project leaves the copy as
\* it was, so every later wave is empty too and the loop never returns its
\* result: of such a run of zeros the model keeps the first MaxSpin.
Push(res, n) ==
    IF n = 0 /\ EmptyWaves(res) >= MaxSpin THEN res ELSE Append(res, n)

\* Variant of GetBuildFlowWave: the loop body calls the methods on `this`.
GetBuildFlowWaveOnThis(this, cp) ==
    The({[this |-> SetAllBuilt(taken.tree, taken.result),
          copy |-> cp,
          count |-> Len(taken.result)] :
         taken \in {TakeProjectsReadyToBuild(this)}})

\* Lines 54-56, one pass of the loop body over the two trees in scope:
\* take from the copy, count, set every taken project built on the copy.
GetBuildFlowWave(this, cp) ==
    The({[this |-> this,
          copy |-> SetAllBuilt(taken.tree, taken.result),
          count |-> Len(taken.result)] :
         taken \in {TakeProjectsReadyToBuild(cp)}})

(***************************************************************************)
(* The inputs.  builder.getAllParsedConfigs() yields at most Len(KeyNames) *)
(* configs, the i-th with path KeyNames[i].  A dependency list names       *)
(* distinct keys of Keys (the project itself and keys never registered     *)
(* included), in the order of KeyNames; the lists of a graph hold at most  *)
(* MaxEdges entries in all.                                                *)
(***************************************************************************)
InSet(S, k) == k \in S
DepLists(n) ==
    {SelectSeq(KeyNames, LAMBDA k : InSet(S, k)) :
        S \in {T \in SUBSET Keys : Cardinality(T) <= n}}

RECURSIVE EdgeCount(_)
EdgeCount(dm) == IF dm = <<>> THEN 0 ELSE Len(Head(dm).value) + EdgeCount(Tail(dm))

(***************************************************************************)
(* Initial state: main has created the pool and an empty ProjectsTree.     *)
(***************************************************************************)
NoTrace == [called |-> FALSE, allBuilt |-> FALSE, claimed |-> <<>>]

InitCommon ==
    /\ tree = NewProjectsTree
    /\ copy = NewProjectsTree
    /\ result = <<>>
    /\ buildFlow = <<>>
    /\ flowReturn = "none"
    /\ process = "running"
    /\ exitCode = 0
    /\ stderr = <<>>
    /\ summaries = 0
    /\ queue = <<>>
    /\ running = {}
    /\ rejected = {}
    /\ timesClaimed = [k \in Keys |-> 0]
    /\ bipTrace = NoTrace
    /\ pending = <<>>

Init == InitCommon /\ maxWorkers \in 1..MaxWorkers /\ pc = "addProjects"

\* process.exit(1) after console.error(line).
Exit(line) ==
    /\ process' = "exited"
    /\ exitCode' = 1
    /\ stderr' = Append(stderr, line)

NoExit == UNCHANGED <<process, exitCode, stderr>>

\* The project paths a console.error line contains: each message of the program
\* interpolates one path (lines 76, 82, 108, 191).
KeysNamed(line) == {line.path}

\* History: the keys of `res` were returned by takeProjectsReadyToBuild once more.
Claimed(res) == [k \in Keys |-> timesClaimed[k] + (IF k \in Range(res) THEN 1 ELSE 0)]

(***************************************************************************)
(* main (src/index.ts:221-274)                                             *)
(***************************************************************************)
\* Lines 252-264: one iteration of the registration loop, called at `at`, for
\* the next config and any dependency list the bounds allow.
Register(at) ==
    /\ process = "running" /\ pc = at
    /\ Len(tree.dependenciesForProject) < Len(KeyNames)
    /\ \E projDeps \in DepLists(MaxEdges - EdgeCount(tree.dependenciesForProject)) :
          tree' = AddProjectWithDeps(
                      tree, KeyNames[Len(tree.dependenciesForProject) + 1], projDeps)
    /\ buildFlow' = <<>>
    /\ UNCHANGED <<maxWorkers, copy, result, flowReturn, pc, process, exitCode,
                   stderr, summaries, queue, running, timesClaimed, bipTrace, pending,
                   rejected>>

MainRegister == Register("addProjects")

\* Line 266: tree.validateState(), reached when the registration loop has run
\* out of configs.
Validate(at, next) ==
    /\ process = "running" /\ pc = at
    /\ \E missing \in {ValidateState(tree)} :
          IF missing = <<>>
          THEN pc' = next /\ NoExit
          ELSE /\ Exit([msg |-> "Cannot find state for", path |-> missing[1]])
               /\ UNCHANGED pc
    /\ UNCHANGED <<maxWorkers, tree, copy, result, buildFlow, flowReturn,
                   summaries, queue, running, timesClaimed, bipTrace, pending,
                   rejected>>

MainValidate == Validate("addProjects", "getBuildFlow")

\* Line 268, entering getBuildFlow: lines 48-52.
GetBuildFlowEnter(at, next) ==
    /\ process = "running" /\ pc = at
    /\ copy' = CopyOfTree(tree)
    /\ result' = <<>>
    /\ flowReturn' = next
    /\ pc' = "flowLoop"
    /\ UNCHANGED <<maxWorkers, tree, buildFlow, process, exitCode, stderr,
                   summaries, queue, running, timesClaimed, bipTrace, pending,
                   rejected>>

MainGetBuildFlow == GetBuildFlowEnter("getBuildFlow", "buildInParallel")

\* Line 53: the loop test holds, control enters the body.
GetBuildFlowTest ==
    /\ process = "running" /\ pc = "flowLoop"
    /\ ~AreAllProjectsBuilt(copy)
    /\ pc' = "flowBody"
    /\ UNCHANGED <<maxWorkers, tree, copy, result, buildFlow, flowReturn,
                   process, exitCode, stderr, summaries, queue, running,
                   timesClaimed, bipTrace, pending, rejected>>

\* Lines 54-56: the body runs once and control goes back to the test.
GetBuildFlowLoop ==
    /\ process = "running" /\ pc = "flowBody"
    /\ \E w \in {GetBuildFlowWave(tree, copy)} :
          /\ tree' = w.this
          /\ copy' = w.copy
          /\ result' = Push(result, w.count)
    /\ pc' = "flowLoop"
    /\ UNCHANGED <<maxWorkers, buildFlow, flowReturn, process, exitCode,
                   stderr, summaries, queue, running, timesClaimed, bipTrace, pending,
                   rejected>>

\* Lines 53, 59: the loop test fails and result is returned.
GetBuildFlowReturn ==
    /\ process = "running" /\ pc = "flowLoop"
    /\ AreAllProjectsBuilt(copy)
    /\ buildFlow' = IF buildFlow = <<>> THEN <<result>>
                    ELSE <<buildFlow[Len(buildFlow)], result>>
    /\ pc' = flowReturn
    /\ flowReturn' = "none"
    /\ copy' = NewProjectsTree
    /\ result' = <<>>
    /\ UNCHANGED <<maxWorkers, tree, process, exitCode, stderr, summaries,
                   queue, running, timesClaimed, bipTrace, pending,
                   rejected>>

(***************************************************************************)
(* buildInParallel (src/index.ts:196-219): what one call does to the tree, *)
(* the projects it hands to buildProject (each reaches workerPool.run at   *)
(* line 175 before the call returns), and whether it logged the summary.   *)
(***************************************************************************)
\* Variant of BuildInParallel: only the first project taken is handed on.
BuildInParallelFirstOnly(t) ==
    IF AreAllProjectsBuilt(t)
    THEN [tree |-> t, submitted |-> <<>>, summary |-> 1,
          trace |-> [called |-> TRUE, allBuilt |-> TRUE, claimed |-> <<>>]]
    ELSE The({[tree |-> taken.tree, submitted |-> SubSeq(taken.result, 1, 1),
               summary |-> 0,
               trace |-> [called |-> TRUE, allBuilt |-> FALSE,
                          claimed |-> taken.result]] :
              taken \in {TakeProjectsReadyToBuild(t)}})

BuildInParallel(t) ==
    IF AreAllProjectsBuilt(t)
    THEN [tree |-> t, submitted |-> <<>>, summary |-> 1,
          trace |-> [called |-> TRUE, allBuilt |-> TRUE, claimed |-> <<>>]]
    ELSE The({[tree |-> taken.tree, submitted |-> taken.result, summary |-> 0,
               trace |-> [called |-> TRUE, allBuilt |-> FALSE,
                          claimed |-> taken.result]] :
              taken \in {TakeProjectsReadyToBuild(t)}})

\* Variant of OnBuildSuccess: line 188, the call of buildInParallel, is missing.
OnBuildSuccessNoReschedule(t, project) ==
    [tree |-> SetProjectBuilt(t, project), submitted |-> <<>>, summary |-> 0,
     trace |-> bipTrace]

\* buildProject lines 187-188, after the assertion of setProjectBuilt held.
OnBuildSuccess(t, project) == BuildInParallel(SetProjectBuilt(t, project))

\* Line 270: the first buildInParallel call; main then awaits at line 272.
MainBuildInParallel ==
    /\ process = "running" /\ pc = "buildInParallel"
    /\ \E b \in {BuildInParallel(tree)} :
          /\ tree' = b.tree
          /\ queue' = queue \o b.submitted
          /\ summaries' = summaries + b.summary
          /\ timesClaimed' = Claimed(b.submitted)
          /\ bipTrace' = b.trace
    /\ pc' = "await"
    /\ buildFlow' = <<>>
    /\ UNCHANGED <<maxWorkers, copy, result, flowReturn, process, exitCode, stderr,
                   running, pending,
                   rejected>>

\* Piscina: a free thread takes the oldest queued task.
WorkerStart ==
    /\ process = "running"
    /\ queue # <<>>
    /\ Cardinality(running) < maxWorkers
    /\ running' = running \cup {Head(queue)}
    /\ queue' = Tail(queue)
    /\ UNCHANGED <<maxWorkers, tree, copy, result, buildFlow, flowReturn, pc,
                   process, exitCode, stderr, summaries, timesClaimed, bipTrace, pending,
                   rejected>>

\* buildProject lines 176-188: workerPool.run resolved for `project`.
BuildSucceeded(project) ==
    /\ process = "running" /\ pc \in {"await", "done"}
    /\ project \in running
    /\ running' = running \ {project}
    /\ IF IsBuilding(tree, project)
       THEN \E b \in {OnBuildSuccess(tree, project)} :
               /\ tree' = b.tree
               /\ queue' = queue \o b.submitted
               /\ summaries' = summaries + b.summary
               /\ timesClaimed' = Claimed(b.submitted)
               /\ bipTrace' = b.trace
               /\ NoExit
       ELSE /\ Exit([msg |-> "is not building", path |-> project])
            /\ UNCHANGED <<tree, queue, summaries, timesClaimed, bipTrace>>
    /\ buildFlow' = <<>>
    /\ UNCHANGED <<maxWorkers, copy, result, flowReturn, pc, pending,
                   rejected>>

\* Variant of OnBuildError: the error is logged and the process is not ended.
OnBuildErrorNoExit(project) ==
    /\ stderr' = Append(stderr, [msg |-> "ERROR: Cannot build", path |-> project])
    /\ UNCHANGED <<process, exitCode>>

\* What buildProject's catch block (lines 189-193) does to the process.
OnBuildError(project) == Exit([msg |-> "ERROR: Cannot build", path |-> project])

\* buildProject lines 189-193: workerPool.run rejected for `project`.
BuildFailed(project) ==
    /\ process = "running" /\ pc \in {"await", "done"}
    /\ project \in running
    /\ running' = running \ {project}
    /\ rejected' = rejected \cup {project}
    /\ OnBuildError(project)
    /\ UNCHANGED <<maxWorkers, tree, copy, result, buildFlow, flowReturn, pc,
                   summaries, queue, timesClaimed, bipTrace, pending>>

\* Lines 272-273: the awaited promise is resolved and main returns.
MainResume ==
    /\ process = "running" /\ pc = "await"
    /\ tree.isResolved
    /\ pc' = "done"
    /\ UNCHANGED <<maxWorkers, tree, copy, result, buildFlow, flowReturn,
                   process, exitCode, stderr, summaries, queue, running, timesClaimed,
                   bipTrace, pending,
                   rejected>>

\* main once the registration loop has run out of configs.
MainAfterRegistration ==
    \/ MainValidate
    \/ MainGetBuildFlow
    \/ GetBuildFlowTest
    \/ GetBuildFlowLoop
    \/ GetBuildFlowReturn
    \/ MainBuildInParallel
    \/ MainResume

MainStep == MainRegister \/ MainAfterRegistration

\* Every run of main: builds may succeed or fail.
Next ==
    \/ MainStep
    \/ WorkerStart
    \/ \E project \in Keys : BuildSucceeded(project)
    \/ \E project \in Keys : BuildFailed(project)

Spec == Init /\ [][Next]_vars

\* The runs of main in which no build fails and, once the configs are
\* registered, nothing that can run is put off for ever: the main thread runs
\* its code, the pool starts queued tasks on free threads, and every started
\* build succeeds.
Scheduled ==
    \/ MainAfterRegistration
    \/ WorkerStart
    \/ \E project \in Keys : BuildSucceeded(project)

NextOk == MainRegister \/ Scheduled

FairSpec == Init /\ [][NextOk]_vars /\ WF_vars(Scheduled)

\* Every run of main in which, once the configs are registered, nothing that
\* can run is put off for ever: a started build ends, by succeeding or failing.
Progress ==
    \/ Scheduled
    \/ \E project \in Keys : BuildFailed(project)

SpecProgress == Init /\ [][Next]_vars /\ WF_vars(Progress)

(***************************************************************************)
(* The public methods of ProjectsTree called in any order by a client.     *)
(***************************************************************************)
ApiRegister == Register("api")

ApiValidate == Validate("api", "api")

ApiGetBuildFlow == GetBuildFlowEnter("api", "api")

\* A call of takeProjectsReadyToBuild at `at`; control continues at `ifNone` when
\* the result is empty and at `ifSome` otherwise, and the caller keeps the result
\* in `pending` if it goes on to use it.
Take(at, ifNone, ifSome, keep) ==
    /\ process = "running" /\ pc = at
    /\ \E taken \in {TakeProjectsReadyToBuild(tree)} :
          /\ tree' = taken.tree
          /\ timesClaimed' = Claimed(taken.result)
          /\ pending' = IF keep THEN taken.result ELSE pending
          /\ pc' = IF taken.result = <<>> THEN ifNone ELSE ifSome
    /\ buildFlow' = <<>>
    /\ UNCHANGED <<maxWorkers, copy, result, flowReturn, process, exitCode, stderr,
                   summaries, queue, running, bipTrace,
                   rejected>>

\* A call of setProjectBuilt(projectPath) at `at`; control continues at `next`.
MarkBuilt(at, projectPath, next) ==
    /\ process = "running" /\ pc = at
    /\ IF IsBuilding(tree, projectPath)
       THEN /\ tree' = SetProjectBuilt(tree, projectPath)
            /\ pc' = next
            /\ NoExit
       ELSE /\ Exit([msg |-> "is not building", path |-> projectPath])
            /\ UNCHANGED <<tree, pc>>
    /\ buildFlow' = <<>>
    /\ UNCHANGED <<maxWorkers, copy, result, flowReturn, summaries, queue, running,
                   timesClaimed, bipTrace,
                   rejected>>

ApiTake == Take("api", "api", "api", FALSE)

ApiSetProjectBuilt(projectPath) ==
    MarkBuilt("api", projectPath, "api") /\ UNCHANGED pending

\* No pool is used: the client calls the tree directly.
InitApi == InitCommon /\ maxWorkers = MaxWorkers /\ pc = "api"

NextApi ==
    \/ ApiRegister
    \/ ApiValidate
    \/ ApiTake
    \/ \E projectPath \in Keys : ApiSetProjectBuilt(projectPath)
    \/ ApiGetBuildFlow
    \/ GetBuildFlowTest
    \/ GetBuildFlowLoop
    \/ GetBuildFlowReturn

SpecApi == InitApi /\ [][NextApi]_vars

\* A getBuildFlow call that has been entered keeps running: its loop and its
\* return are not put off for ever.
FlowRuns ==
    \/ GetBuildFlowTest
    \/ GetBuildFlowLoop
    \/ GetBuildFlowReturn

SpecApiFlow == InitApi /\ [][NextApi]_vars /\ WF_vars(FlowRuns)

(***************************************************************************)
(* The drain loop: after registration, while (!areAllProjectsBuilt()) take *)
(* the ready projects and set each of them built.                          *)
(***************************************************************************)
DrainRegister == Register("register")

\* Registration is over; the loop starts.
DrainStart ==
    /\ process = "running" /\ pc = "register"
    /\ pc' = "drain"
    /\ UNCHANGED <<maxWorkers, tree, copy, result, buildFlow, flowReturn, process,
                   exitCode, stderr, summaries, queue, running, timesClaimed, bipTrace,
                   pending,
                   rejected>>

\* The loop test holds: takeProjectsReadyToBuild.
DrainTake == ~AreAllProjectsBuilt(tree) /\ Take("drain", "drain", "drainMark", TRUE)

\* setProjectBuilt on the next project taken.
DrainMark ==
    /\ pending # <<>>
    /\ MarkBuilt("drainMark", Head(pending),
                 IF Tail(pending) = <<>> THEN "drain" ELSE "drainMark")
    /\ pending' = Tail(pending)

\* The loop test fails.
DrainDone ==
    /\ process = "running" /\ pc = "drain"
    /\ AreAllProjectsBuilt(tree)
    /\ pc' = "drained"
    /\ UNCHANGED <<maxWorkers, tree, copy, result, buildFlow, flowReturn, process,
                   exitCode, stderr, summaries, queue, running, timesClaimed, bipTrace,
                   pending,
                   rejected>>

InitDrain == InitCommon /\ maxWorkers = MaxWorkers /\ pc = "register"

\* The loop proper.
DrainLoop ==
    \/ DrainTake
    \/ DrainMark
    \/ DrainDone

NextDrain ==
    \/ DrainRegister
    \/ DrainStart
    \/ DrainLoop

\* The loop, once entered, keeps running.
SpecDrain == InitDrain /\ [][NextDrain]_vars /\ WF_vars(DrainLoop)

(***************************************************************************)
(* Vocabulary of the properties.                                           *)
(***************************************************************************)
Registered(t) == MapKeySet(t.dependenciesForProject)
StateOf(t, k) == MapGet(t.projectsState, k)
DepsOf(t, k) == Range(MapGet(t.dependenciesForProject, k))

\* Every dependency key is a registered project.
Valid(t) == \A k \in Registered(t) : DepsOf(t, k) \subseteq Registered(t)

\* b is reached from a along between 1 and n dependency edges.
RECURSIVE ReachedIn(_, _, _, _)
ReachedIn(t, a, b, n) ==
    /\ n > 0
    /\ a \in Registered(t)
    /\ \/ b \in DepsOf(t, a)
       \/ \E c \in DepsOf(t, a) : ReachedIn(t, c, b, n - 1)

OnCycle(t, k) == ReachedIn(t, k, k, Len(KeyNames))
Acyclic(t) == \A k \in Registered(t) : ~OnCycle(t, k)
ValidAcyclic(t) == Valid(t) /\ Acyclic(t)

\* The projects executing or waiting in the pool.
InPool == running \cup Range(queue)

(***************************************************************************)
(* C1.  In a run of main, a project is Building (or Built) or is in the    *)
(* worker pool only if every one of its dependencies is Built: nothing is  *)
(* moved to Building or submitted before its dependencies have completed,  *)
(* whatever the order in which the builds complete.                        *)
(***************************************************************************)
C1_StartedOnlyAfterDeps ==
    \A k \in Keys :
        (StateOf(tree, k) \in {Building, Built} \/ k \in InPool)
            => /\ k \in Registered(tree)
               /\ \A d \in DepsOf(tree, k) : StateOf(tree, d) = Built

\* A project with two dependencies is executing while an independent one is not
\* yet finished.
C1_Witness ==
    \E k \in running :
        /\ Cardinality(DepsOf(tree, k)) = 2
        /\ \E j \in Registered(tree) \ DepsOf(tree, k) :
              j # k /\ StateOf(tree, j) = Building

(***************************************************************************)
(* C2.  Over any sequence of public calls on the tree, no key is returned  *)
(* by takeProjectsReadyToBuild more than once.                             *)
(***************************************************************************)
C2_ClaimedAtMostOnce == \A k \in Keys : timesClaimed[k] <= 1

\* Two different calls have each returned a project: one that is already Built
\* and, later, one that depends on it.
C2_Witness ==
    \E k \in Registered(tree) : \E d \in DepsOf(tree, k) :
        /\ timesClaimed[k] = 1 /\ StateOf(tree, k) = Building
        /\ timesClaimed[d] = 1 /\ StateOf(tree, d) = Built

(***************************************************************************)
(* C3.  On a valid acyclic graph the loop "take the ready projects, set    *)
(* each of them built" repeated until areAllProjectsBuilt() terminates,    *)
(* and when it has, every registered project was returned by               *)
(* takeProjectsReadyToBuild exactly once.                                  *)
(***************************************************************************)
C3_DrainTerminatesEachOnce ==
    /\ [](pc = "drain" /\ ValidAcyclic(tree) => <>(pc = "drained"))
    /\ [](pc = "drained" => \A k \in Registered(tree) : timesClaimed[k] = 1)

\* The loop has ended on a graph of four projects that needed three waves.
C3_Witness ==
    /\ pc = "drained"
    /\ Cardinality(Registered(tree)) = 4
    /\ \E a, b, c \in Registered(tree) : b \in DepsOf(tree, a) /\ c \in DepsOf(tree, b)

(***************************************************************************)
(* C4.  In a run of main on a valid acyclic graph in which every started   *)
(* build succeeds, the scheduler loop reaches the state in which every     *)
(* project is Built and has then logged the summary line exactly once; the *)
(* line is never logged twice, and never while some project is not Built.  *)
(***************************************************************************)
C4_SuccessReportedOnce ==
    /\ [](pc = "buildInParallel" /\ ValidAcyclic(tree)
            => <>[](summaries = 1 /\ \A k \in Registered(tree) : StateOf(tree, k) = Built))
    /\ [](summaries <= 1)
    /\ [](summaries > 0 => \A k \in Registered(tree) : StateOf(tree, k) = Built)

\* The summary was logged after a build of four projects with a dependency.
C4_Witness ==
    /\ summaries = 1
    /\ Cardinality(Registered(tree)) = 4
    /\ \E k \in Registered(tree) : DepsOf(tree, k) # {}
    /\ InPool = {}

(***************************************************************************)
(* C5.  When a build fails the run has ended, in the same step, with exit  *)
(* code 1 and an error line naming the failed project, whatever else is    *)
(* still in the pool; and once the process has exited no project is moved  *)
(* to Building or submitted to the pool.                                   *)
(***************************************************************************)
C5_FailFast ==
    /\ [](\A p \in rejected :
            /\ process = "exited" /\ exitCode = 1
            /\ stderr # <<>>
            /\ stderr[Len(stderr)] = [msg |-> "ERROR: Cannot build", path |-> p])
    /\ [][process = "exited" => UNCHANGED <<tree, queue, running>>]_vars

\* A build failed while another project was executing and a third was queued.
C5_Witness ==
    /\ process = "exited"
    /\ \E p \in rejected : \E q \in running : q # p
    /\ queue # <<>>

(***************************************************************************)
(* C6.  Whenever a buildInParallel call finds that not every project is    *)
(* Built and takeProjectsReadyToBuild returns an empty list, the run has   *)
(* ended with a fatal error.                                               *)
(***************************************************************************)
C6_EmptyClaimIsFatal ==
    (bipTrace.called /\ ~bipTrace.allBuilt /\ bipTrace.claimed = <<>>)
        => (process = "exited" /\ exitCode = 1)

(***************************************************************************)
(* C7.  A run of main on a graph with a dependency cycle that passed       *)
(* validateState ends with a fatal error reported.                         *)
(***************************************************************************)
C7_CycleEndsInReport ==
    [](pc = "getBuildFlow" /\ ~Acyclic(tree)
          => <>(process = "exited" /\ exitCode = 1 /\ stderr # <<>>))

InGetBuildFlow(p) == p \in {"flowLoop", "flowBody"}

(***************************************************************************)
(* C8.  No step of a getBuildFlow call changes the tree it is called on    *)
(* (states, dependency lists, isResolved), and two calls with nothing in   *)
(* between return the same list.                                           *)
(***************************************************************************)
C8_GetBuildFlowIsPure ==
    /\ [][(InGetBuildFlow(pc) \/ InGetBuildFlow(pc')) => tree' = tree]_vars
    /\ [](Len(buildFlow) = 2 => buildFlow[1] = buildFlow[2])

\* Two calls in a row have returned a flow of at least two waves.
C8_Witness ==
    /\ Len(buildFlow) = 2
    /\ Len(buildFlow[2]) >= 2
    /\ pc = "api"

RECURSIVE SumSeq(_)
SumSeq(f) == IF f = <<>> THEN 0 ELSE Head(f) + SumSeq(Tail(f))

LastFlow == buildFlow[Len(buildFlow)]

NotYetBuilt(t) == {k \in Registered(t) : StateOf(t, k) # Built}

(***************************************************************************)
(* C9.  As claimed: the wave counts getBuildFlow returns on a valid        *)
(* acyclic graph add up to projectsCount().                                *)
(***************************************************************************)
C9_SumIsProjectsCount ==
    (buildFlow # <<>> /\ ValidAcyclic(tree))
        => SumSeq(LastFlow) = ProjectsCount(tree)

(***************************************************************************)
(* C9, amended.  The wave counts getBuildFlow returns on a valid acyclic   *)
(* graph add up to the number of registered projects that were not yet     *)
(* Built when it was called: to projectsCount() when none was.             *)
(***************************************************************************)
C9_SumIsNotYetBuilt ==
    (buildFlow # <<>> /\ ValidAcyclic(tree))
        => /\ SumSeq(LastFlow) = Cardinality(NotYetBuilt(tree))
           /\ (NotYetBuilt(tree) = Registered(tree)
                  => SumSeq(LastFlow) = ProjectsCount(tree))

\* getBuildFlow has returned two waves for a tree with a project already Built.
C9_Witness ==
    /\ buildFlow # <<>>
    /\ ValidAcyclic(tree)
    /\ Len(LastFlow) = 2
    /\ Cardinality(Registered(tree) \ NotYetBuilt(tree)) = 1

Max(S) == CHOOSE x \in S : \A y \in S : y <= x

\* The number of edges of the longest dependency chain starting at k.
RECURSIVE ChainLen(_, _)
ChainLen(t, k) ==
    IF DepsOf(t, k) = {} THEN 0
    ELSE 1 + Max({ChainLen(t, d) : d \in DepsOf(t, k)})

Level(t, n) == {k \in Registered(t) : ChainLen(t, k) = n}

(***************************************************************************)
(* C10.  On a valid acyclic graph of which no project has been taken yet,  *)
(* the k-th entry of getBuildFlow's result is the number of projects whose *)
(* longest dependency chain has k-1 edges, for every k up to the longest   *)
(* chain of the graph, whether a project was registered before or after    *)
(* its dependencies; so every entry is at least 1.                         *)
(***************************************************************************)
C10_WavesAreChainLevels ==
    (buildFlow # <<>> /\ ValidAcyclic(tree) /\ \A k \in Keys : timesClaimed[k] = 0)
        => /\ \A i \in 1..Len(LastFlow) :
                 /\ LastFlow[i] = Cardinality(Level(tree, i - 1))
                 /\ LastFlow[i] >= 1
           /\ \A k \in Registered(tree) : ChainLen(tree, k) < Len(LastFlow)

\* {A: [], B: [A], C: [A], D: [B, C]} has yielded [1, 2, 1].
C10_Witness ==
    /\ buildFlow # <<>>
    /\ LastFlow = <<1, 2, 1>>
    /\ tree.dependenciesForProject =
           <<[key |-> "A", value |-> <<>>], [key |-> "B", value |-> <<"A">>],
             [key |-> "C", value |-> <<"A">>], [key |-> "D", value |-> <<"B", "C">>]>>

\* The latest console.error line.
LastError == stderr[Len(stderr)]

(***************************************************************************)
(* C11.  A setProjectBuilt(k) call for a k that is not Building (waiting,  *)
(* ready, built or not registered) ends the process with exit code 1 and   *)
(* an error naming k, and leaves the tree as it was; a project becomes     *)
(* Built only from Building.                                               *)
(***************************************************************************)
C11_SetBuiltNeedsBuilding ==
    /\ [][\A k \in Keys :
            (ApiSetProjectBuilt(k) /\ StateOf(tree, k) # Building)
                => /\ tree' = tree
                   /\ process' = "exited" /\ exitCode' = 1
                   /\ stderr' = Append(stderr, [msg |-> "is not building", path |-> k])]_vars
    /\ [][\A k \in Keys :
            (StateOf(tree', k) = Built /\ StateOf(tree, k) # Built)
                => StateOf(tree, k) = Building]_vars

\* setProjectBuilt was called for a project that was Built already.
C11_Witness ==
    /\ process = "exited"
    /\ stderr # <<>>
    /\ LastError.msg = "is not building"
    /\ StateOf(tree, LastError.path) = Built
    /\ \E k \in Registered(tree) : StateOf(tree, k) = ReadyToBuild

\* The process was ended by an assertion of validateState.
ValidateFailed ==
    /\ process = "exited"
    /\ stderr # <<>>
    /\ LastError.msg = "Cannot find state for"

(***************************************************************************)
(* C12.  validateState ends the process if and only if some registered     *)
(* project has a dependency key that is not a registered project; whether  *)
(* it fails or not, it changes no state and no dependency list.            *)
(***************************************************************************)
C12_ValidateIffDangling ==
    /\ []((ValidateState(tree) # <<>>) <=> ~Valid(tree))
    /\ [][ApiValidate => /\ tree' = tree
                         /\ (process' = "exited") <=> ~Valid(tree)]_vars
    /\ [](ValidateFailed => ~Valid(tree))

\* validateState has ended the process on a graph of three projects, one of
\* them with a dependency that is not registered.
C12_Witness ==
    /\ ValidateFailed
    /\ Cardinality(Registered(tree)) = 3
    /\ Cardinality({k \in Registered(tree) : ~(DepsOf(tree, k) \subseteq Registered(tree))}) = 1

(***************************************************************************)
(* C13.  When validateState fails because a project depends on a key that  *)
(* is not registered, the error line names both the depending project and  *)
(* the missing dependency key.                                             *)
(***************************************************************************)
C13_ErrorNamesBothKeys ==
    ValidateFailed
        => \E k \in Registered(tree) :
              \E d \in DepsOf(tree, k) \ Registered(tree) :
                  {k, d} \subseteq KeysNamed(LastError)

\* The changes of state a project may go through; a project that is registered
\* gets its first state, WaitForDeps or ReadyToBuild.
ForwardSteps ==
    {<<Undefined, WaitForDeps>>, <<Undefined, ReadyToBuild>>,
     <<WaitForDeps, ReadyToBuild>>, <<ReadyToBuild, Building>>, <<Building, Built>>}

(***************************************************************************)
(* C14.  Under any sequence of addProjectWithDeps (each key once, before   *)
(* or after its dependencies), takeProjectsReadyToBuild and                *)
(* setProjectBuilt calls, a call changes the state of a project only from  *)
(* WaitForDeps to ReadyToBuild, from ReadyToBuild to Building or from      *)
(* Building to Built: no project goes back or skips a state.               *)
(***************************************************************************)
C14_StatesMoveForward ==
    [][\A k \in Keys :
          StateOf(tree', k) # StateOf(tree, k)
              => <<StateOf(tree, k), StateOf(tree', k)>> \in ForwardSteps]_vars

\* A project registered before its dependency has gone through all four states
\* while another one is being built.
C14_Witness ==
    /\ \E k \in Registered(tree) :
          /\ StateOf(tree, k) = Built
          /\ \E d \in DepsOf(tree, k) :
                \E i, j \in 1..Len(tree.dependenciesForProject) :
                    /\ tree.dependenciesForProject[i].key = k
                    /\ tree.dependenciesForProject[j].key = d
                    /\ i < j
    /\ \E k \in Registered(tree) : StateOf(tree, k) = Building

(***************************************************************************)
(* C15.  A build that is executing when a failure ends the run is not      *)
(* interrupted: it still ends, by succeeding or by failing.                *)
(***************************************************************************)
C15_RunningBuildsFinish ==
    [](\A p \in Keys : (process = "exited" /\ p \in running) => <>(p \notin running))

\* Every dependency of k is Built.
DepsBuilt(t, k) == \A d \in DepsOf(t, k) : StateOf(t, d) = Built

(***************************************************************************)
(* C16.  After each of addProjectWithDeps, takeProjectsReadyToBuild and    *)
(* setProjectBuilt has returned, a registered project that is neither      *)
(* Building nor Built is ReadyToBuild if all its dependencies are Built    *)
(* and WaitForDeps if not; a project registered without dependencies is    *)
(* ReadyToBuild at once.                                                   *)
(***************************************************************************)
C16_ReadyIffDepsBuilt ==
    /\ [](\A k \in Registered(tree) :
            StateOf(tree, k) \notin {Building, Built}
                => StateOf(tree, k) = (IF DepsBuilt(tree, k) THEN ReadyToBuild
                                       ELSE WaitForDeps))
    /\ [][\A k \in Registered(tree') \ Registered(tree) :
            DepsOf(tree', k) = {} => StateOf(tree', k) = ReadyToBuild]_vars

\* setProjectBuilt has made a project with two dependencies ReadyToBuild while
\* another project waits.
C16_Witness ==
    /\ pc = "api" /\ process = "running"
    /\ \E k \in Registered(tree) :
          /\ StateOf(tree, k) = ReadyToBuild
          /\ Cardinality(DepsOf(tree, k)) = 2
    /\ \E k \in Registered(tree) : StateOf(tree, k) = WaitForDeps

\* The keys reached from the keys of S along at most n dependency edges.
RECURSIVE ReachedFrom(_, _, _)
ReachedFrom(t, S, n) ==
    IF n = 0 THEN S
    ELSE ReachedFrom(t, S \cup UNION {DepsOf(t, x) : x \in S \cap Registered(t)}, n - 1)

\* The keys k depends on, directly or not.
Reached(t, k) == ReachedFrom(t, DepsOf(t, k), Len(KeyNames))

\* For each registered project, the keys it depends on, directly or not.
ReachMap(t) == [k \in Registered(t) |-> Reached(t, k)]

\* With r = ReachMap(t): k is on a dependency cycle or depends, directly or
\* not, on a project that is.
BehindCycle(r, k) == \E c \in ({k} \cup r[k]) \cap DOMAIN r : c \in r[c]

(***************************************************************************)
(* C17.  In a graph with a dependency cycle, a project that is on a cycle  *)
(* (a project that lists itself included) or depends on one, directly or   *)
(* not, stays WaitForDeps whatever calls are made: it is never returned by *)
(* takeProjectsReadyToBuild, and areAllProjectsBuilt() is never true.      *)
(***************************************************************************)
C17_CycleNeverStarts ==
    /\ \A k \in Registered(tree) :
          \/ StateOf(tree, k) = WaitForDeps /\ timesClaimed[k] = 0
          \/ ~BehindCycle(ReachMap(tree), k)
    /\ \/ ~AreAllProjectsBuilt(tree)
       \/ \A k \in Registered(tree) : k \notin Reached(tree, k)

\* A project lists itself, another depends on it, and a third, independent of
\* both, has been taken and built.
C17_Witness ==
    /\ \E k \in Registered(tree) : k \in DepsOf(tree, k)
    /\ \E k \in Registered(tree) :
          BehindCycle(ReachMap(tree), k) /\ k \notin Reached(tree, k)
    /\ \E k \in Registered(tree) : StateOf(tree, k) = Built /\ timesClaimed[k] = 1
    /\ pc = "api" /\ process = "running"

(***************************************************************************)
(* C18.  A getBuildFlow call on a valid acyclic graph returns, whatever    *)
(* states the projects are in when it is called (some Building, some       *)
(* Built).                                                                 *)
(***************************************************************************)
C18_GetBuildFlowReturns ==
    [](InGetBuildFlow(pc) /\ ValidAcyclic(tree) => <>(~InGetBuildFlow(pc)))

\* main has made its buildInParallel call: the main thread is idle between the
\* completions of builds.
Idle == pc \in {"await", "done"}

(***************************************************************************)
(* C19.  In a run without failures, once main's buildInParallel call has   *)
(* returned and between the completions of builds, no project is           *)
(* ReadyToBuild: a project whose dependencies are all Built is Building or *)
(* Built, a Building project is in the pool, and a project whose last      *)
(* dependency becomes Built is in the pool after that same step.           *)
(***************************************************************************)
C19_NothingLeftReady ==
    /\ [](Idle => \A k \in Registered(tree) :
                     /\ StateOf(tree, k) # ReadyToBuild
                     /\ DepsBuilt(tree, k) => StateOf(tree, k) \in {Building, Built}
                     /\ StateOf(tree, k) = Building => k \in InPool)
    /\ [][\A k \in Registered(tree) :
            (Idle /\ ~DepsBuilt(tree, k) /\ DepsBuilt(tree', k))
                => k \in running' \cup Range(queue')]_vars

\* A project with two dependencies is in the pool, submitted when the second of
\* them was built, while another project still waits.
C19_Witness ==
    /\ Idle /\ process = "running"
    /\ \E k \in InPool : Cardinality(DepsOf(tree, k)) = 2
    /\ \E k \in Registered(tree) : StateOf(tree, k) = WaitForDeps

(***************************************************************************)
(* C20.  Once main has registered the graph (a graph without projects      *)
(* included), the promise of waitUntilAllProjectsAreBuilt is resolved in   *)
(* the states in which areAllProjectsBuilt() is true and only in those.    *)
(***************************************************************************)
C20_ResolvedIffAllBuilt ==
    pc # "addProjects" => (tree.isResolved <=> AreAllProjectsBuilt(tree))

====
